---- MODULE Spec2Model ----
(***************************************************************************)
(* TrendRadar notification subsystem: the batch splitter                   *)
(* (trendradar/notification/splitter.py, split_content_into_batches) and   *)
(* the pre-processing of the two renderers (renderer.py).                  *)
(*                                                                         *)
(* Text is a sequence of chunks.  A chunk stands for one string the code   *)
(* concatenates (a header, an item line, a separator ...) and carries its  *)
(* UTF-8 byte length n; the empty string is the empty sequence.  Byte      *)
(* lengths are scaled: every non-empty fixed string of a platform counts   *)
(* FixedBytes (the footer FooterBytes), an item line counts the bytes of   *)
(* its title plus the line breaks the code adds.  The trial arithmetic of  *)
(* the code (sums and the comparisons with max_bytes) is kept as written.  *)
(***************************************************************************)
EXTENDS Integers, Sequences, FiniteSets, TLC

\* ------------------------------------------------------------------ bounds
\* Largest number of titles in one report (stats and new_titles together).
MaxTitles == 3
\* Largest number of failed source ids.
MaxFailed == 2
\* Largest byte budget (max_bytes) tried.
MaxBytes == 10
\* Largest max_total_news_in_push tried.
MaxTotal == 2

\* Largest number of titles in one report of the pre-processing runs.
MaxTitlesPre == 4
\* Largest number of groups in one section of a report of those runs.
MaxGroupsPre == 2
\* Largest max_total_news_in_push of the pre-processing runs.
MaxTotalPre == 4

\* The runs over reports that may hold groups without titles: the largest
\* number of titles, of groups in a section, of failed ids, the largest
\* max_bytes and the largest max_total_news_in_push.
MaxTitlesEmpty == 2
MaxGroupsEmpty == 2
MaxFailedEmpty == 1
MaxBytesEmpty == 5
MaxTotalEmpty == 1

\* The budget runs: the largest max_bytes given and the largest size in a
\* batch_sizes mapping.
MaxBytesArg == 1
MaxSize == 2

\* The runs of a call and its repetition: the largest number of titles, of
\* failed ids, the largest max_bytes and max_total_news_in_push.
MaxTitlesTwice == 2
MaxFailedTwice == 1
MaxBytesTwice == 7
MaxTotalTwice == 1

\* The runs checked for termination: the largest number of titles, of failed
\* ids, the largest max_bytes and max_total_news_in_push.
MaxTitlesLive == 2
MaxFailedLive == 1
MaxBytesLive == 6
MaxTotalLive == 1

\* ------------------------------------------------------------- byte lengths
\* Scaled length of a non-empty fixed string (headers, separators, the
\* "no matches" text, a failed-id line).
FixedBytes == 1
\* Scaled length of the footer.
FooterBytes == 2
\* Length of "\n".
NewlineBytes == 1

Min(a, b) == IF a < b THEN a ELSE b

\* The elements of a sequence.
Range(s) == {s[x] : x \in DOMAIN s}

\* Mutant of Take: the last n elements, s[-n:], instead of the first.
TakeLast(s, n) == SubSeq(s, Len(s) - Min(n, Len(s)) + 1, Len(s))

\* s[:n] of Python for n >= 0.
Take(s, n) == SubSeq(s, 1, Min(n, Len(s)))

RECURSIVE SumLen(_)
\* sum(len(g["titles"]) for g in groups)
SumLen(groups) ==
    IF groups = <<>> THEN 0
    ELSE Len(Head(groups).titles) + SumLen(Tail(groups))

RECURSIVE Bytes(_)
\* len(text.encode("utf-8"))
Bytes(text) == IF text = <<>> THEN 0 ELSE Head(text).n + Bytes(Tail(text))

\* ------------------------------------------------------------------ inputs
\* format_type values named by the docstring of split_content_into_batches.
Platforms == {"feishu", "dingtalk", "wework", "telegram", "ntfy", "bark", "slack"}

\* mode values: the two the code names and one standing for every other.
Modes == {"incremental", "current", "daily"}

\* A TitleItem: its identity, the byte length of its formatted text (every
\* third title is a long one), is_new.
Title(id) ==
    [title |-> id, len |-> IF id % 3 = 0 THEN 3 ELSE 1, is_new |-> (id % 2 = 1)]

\* The text of the title holds the words "暂无匹配" (every second title is
\* such a headline; 0 is no title).
TitleSaysNoMatch(id) == id > 0 /\ id % 2 = 0

RECURSIVE Sum(_)
Sum(s) == IF s = <<>> THEN 0 ELSE Head(s) + Sum(Tail(s))

\* The shapes of a section: the sizes of its groups, in order: at most G
\* groups of at least `least` titles each, at most T titles in all.
Shapes(T, G, least) ==
    {s \in UNION {[1..k -> least..T] : k \in 0..G} : Sum(s) <= T}

\* The titles first .. first+cnt-1.
TitleRun(first, cnt) == [k \in 1..cnt |-> Title(first + k - 1)]

\* report_data["stats"] of shape s; its titles are numbered from 1.
StatsOf(s) ==
    [g \in 1..Len(s) |->
        [word |-> g, count |-> s[g],
         titles |-> TitleRun(Sum(SubSeq(s, 1, g - 1)) + 1, s[g])]]

\* report_data["new_titles"] of shape s; its titles are numbered after base.
NewTitlesOf(s, base) ==
    [g \in 1..Len(s) |->
        [source_name |-> g,
         titles |-> TitleRun(base + Sum(SubSeq(s, 1, g - 1)) + 1, s[g])]]

\* The reports of the aggregator with at most T titles, F failed ids and G
\* groups a section: count = len(titles) in every stats group,
\* total_new_count = the number of titles of new_titles.
Reports(T, F, G, least) ==
    {[stats |-> StatsOf(ss), new_titles |-> NewTitlesOf(ns, Sum(ss)),
      failed_ids |-> [k \in 1..f |-> k], total_new_count |-> Sum(ns)] :
        <<ss, ns, f>> \in
            {x \in Shapes(T, G, least) \X Shapes(T, G, least) \X (0..F) :
                Sum(x[1]) + Sum(x[2]) <= T}}

\* ------------------------------------------------------- pre-processing
RECURSIVE TruncateStatsLoop(_, _, _, _)
\* for stat in report_data["stats"]: the loop from group k on, acc = the
\* groups kept so far and total_news_count.
TruncateStatsLoop(stats, M, k, acc) ==
    IF k > Len(stats) \/ acc.total >= M THEN acc
    ELSE LET remaining == M - acc.total
             truncated_titles == Take(stats[k].titles, remaining)
         IN  TruncateStatsLoop(stats, M, k + 1,
                 IF truncated_titles # <<>>
                 THEN [out |-> Append(acc.out,
                                  [word |-> stats[k].word,
                                   count |-> Len(truncated_titles),
                                   titles |-> truncated_titles]),
                       total |-> acc.total + Len(truncated_titles)]
                 ELSE acc)

RECURSIVE TruncateNewLoopNoCount(_, _, _, _)
\* Mutant of TruncateNewLoop: total_news_count is not added up, so every
\* source group gets the whole budget.
TruncateNewLoopNoCount(new_titles, M, k, acc) ==
    IF k > Len(new_titles) \/ acc.total >= M THEN acc
    ELSE LET truncated_titles == Take(new_titles[k].titles, M - acc.total)
         IN  TruncateNewLoopNoCount(new_titles, M, k + 1,
                 IF truncated_titles # <<>>
                 THEN [out |-> Append(acc.out,
                                  [source_name |-> new_titles[k].source_name,
                                   titles |-> truncated_titles]),
                       total |-> acc.total]
                 ELSE acc)

RECURSIVE TruncateNewLoop(_, _, _, _)
\* for source_data in new_titles: the same loop over source groups.
TruncateNewLoop(new_titles, M, k, acc) ==
    IF k > Len(new_titles) \/ acc.total >= M THEN acc
    ELSE LET remaining == M - acc.total
             truncated_titles == Take(new_titles[k].titles, remaining)
         IN  TruncateNewLoop(new_titles, M, k + 1,
                 IF truncated_titles # <<>>
                 THEN [out |-> Append(acc.out,
                                  [source_name |-> new_titles[k].source_name,
                                   titles |-> truncated_titles]),
                       total |-> acc.total + Len(truncated_titles)]
                 ELSE acc)

\* Mutant of SplitTruncate: without a truncation budget the statistics are
\* kept even when they are not to be shown.
SplitTruncateKeepingStats(report, M, show) ==
    IF M > 0
    THEN LET s == IF show /\ report.stats # <<>>
                  THEN TruncateStatsLoop(report.stats, M, 1,
                                         [out |-> <<>>, total |-> 0])
                  ELSE [out |-> <<>>, total |-> 0]
             t == IF report.new_titles # <<>>
                  THEN TruncateNewLoop(report.new_titles, M, 1,
                                       [out |-> <<>>, total |-> s.total])
                  ELSE [out |-> <<>>, total |-> s.total]
         IN  [report EXCEPT !.stats = s.out, !.new_titles = t.out]
    ELSE report

\* truncated_report_data of split_content_into_batches.
SplitTruncate(report, M, show) ==
    IF M > 0
    THEN LET s == IF show /\ report.stats # <<>>
                  THEN TruncateStatsLoop(report.stats, M, 1,
                                         [out |-> <<>>, total |-> 0])
                  ELSE [out |-> <<>>, total |-> 0]
             t == IF report.new_titles # <<>>
                  THEN TruncateNewLoop(report.new_titles, M, 1,
                                       [out |-> <<>>, total |-> s.total])
                  ELSE [out |-> <<>>, total |-> s.total]
         IN  [report EXCEPT !.stats = s.out, !.new_titles = t.out]
    ELSE IF ~show THEN [report EXCEPT !.stats = <<>>] ELSE report

\* source_name of the flattened pseudo-group ("匹配的新闻").
FlatSourceName == 0

RECURSIVE AllTitles(_)
\* all_titles: the titles of every stats group, in order.
AllTitles(stats) ==
    IF stats = <<>> THEN <<>>
    ELSE Head(stats).titles \o AllTitles(Tail(stats))

\* Mutant of FlattenNewTitles: the flattened group is put after the groups of
\* new_titles.
FlattenBehind(report, show) ==
    IF ~show /\ report.stats # <<>>
    THEN report.new_titles
             \o <<[source_name |-> FlatSourceName,
                   titles |-> AllTitles(report.stats)]>>
    ELSE report.new_titles

\* all_new_titles of the renderers: the flattened group, when statistics are
\* not shown, before the groups of new_titles.
FlattenNewTitles(report, show) ==
    IF ~show /\ report.stats # <<>>
    THEN <<[source_name |-> FlatSourceName,
            titles |-> AllTitles(report.stats)]>> \o report.new_titles
    ELSE report.new_titles

\* truncated_stats and truncated_new_titles of a renderer.
RenderTruncate(report, M, show) ==
    LET all_new_titles == FlattenNewTitles(report, show) IN
    IF M > 0
    THEN LET s == IF show /\ report.stats # <<>>
                  THEN TruncateStatsLoop(report.stats, M, 1,
                                         [out |-> <<>>, total |-> 0])
                  ELSE [out |-> <<>>, total |-> 0]
             t == IF all_new_titles # <<>>
                  THEN TruncateNewLoop(all_new_titles, M, 1,
                                       [out |-> <<>>, total |-> s.total])
                  ELSE [out |-> <<>>, total |-> s.total]
         IN  [stats |-> s.out, new_titles |-> t.out]
    ELSE [stats |-> IF show THEN report.stats ELSE <<>>,
          new_titles |-> all_new_titles]

\* The pre-processing of render_feishu_content.
FeishuTruncate(report, M, show) == RenderTruncate(report, M, show)

\* The pre-processing of render_dingtalk_content.
DingtalkTruncate(report, M, show) == RenderTruncate(report, M, show)

\* ------------------------------------------------------------------ text
\* One string of the message: k its kind, g and j what it names (a word or
\* source, an item number, a count), t the title it shows (0: none), n its
\* byte length, f the formatter that
\* rendered it (items) or the mode it words (the "no matches" text), src and
\* new the show_source and is_new the formatter was given.
Chunk(k, g, j, n, f) ==
    [k |-> k, g |-> g, j |-> j, t |-> 0, n |-> n, f |-> f,
     src |-> FALSE, new |-> FALSE]

\* format_title_for_platform(platform, title_data, show_source): the
\* formatted title, as long as the title's text.
format_title_for_platform(platform, title_data, show_source) ==
    [p |-> platform, t |-> title_data.title, n |-> title_data.len,
     src |-> show_source, new |-> title_data.is_new]

\* f"{title_data['title']}": the bare title.
RawTitle(title_data) ==
    [p |-> "title", t |-> title_data.title, n |-> title_data.len,
     src |-> FALSE, new |-> FALSE]

\* An item line f"  {j}. {formatted_title}\n" of group g, with `extra` more
\* bytes appended.
ItemLine(k, g, j, formatted_title, extra) ==
    [k |-> k, g |-> g, j |-> j, t |-> formatted_title.t,
     n |-> formatted_title.n + extra, f |-> formatted_title.p, src |-> formatted_title.src,
     new |-> formatted_title.new]

\* total_titles
TotalTitles(stats) ==
    SumLen(SelectSeq(stats, LAMBDA stat : stat.count > 0))

\* Mutant of get_time_func: the wall clock, later at every call.
WallClock(c) == c

\* get_time_func(): the injected clock, read by the c-th call; it returns the
\* same time at every call.
get_time_func(c) == 1

\* base_header: it names total_titles and, for dingtalk, the time.
BaseHeader(ft, total_titles, now) ==
    IF ft \in {"wework", "bark", "telegram", "ntfy", "slack"}
    THEN <<Chunk("base_header", total_titles, 0, FixedBytes, "")>>
    ELSE IF ft = "dingtalk"
    THEN <<Chunk("base_header", total_titles, now, FixedBytes, "")>>
    ELSE <<>>

\* base_footer: it names the time.
BaseFooter(ft, now) ==
    IF ft \in {"wework", "bark", "telegram", "ntfy", "feishu", "dingtalk", "slack"}
    THEN <<Chunk("base_footer", now, 0, FooterBytes, "")>>
    ELSE <<>>

StatsHeader(ft, stats) ==
    IF stats # <<>>
       /\ ft \in {"wework", "bark", "telegram", "ntfy", "feishu", "dingtalk", "slack"}
    THEN <<Chunk("stats_header", 0, 0, FixedBytes, "")>>
    ELSE <<>>

\* word_header of the i-th group: the sequence mark [i/N], the word, the count.
WordHeader(ft, i, stat) ==
    IF ft \in {"wework", "bark", "telegram", "ntfy", "feishu", "dingtalk", "slack"}
    THEN <<Chunk("word_header", stat.word, i, FixedBytes, "")>>
    ELSE <<>>

\* The formatter of the statistics items (first and later ones alike).
StatsTitle(ft, title_data) ==
    IF ft \in {"wework", "bark"}
    THEN format_title_for_platform("wework", title_data, TRUE)
    ELSE IF ft \in {"telegram", "ntfy", "feishu", "dingtalk", "slack"}
    THEN format_title_for_platform(ft, title_data, TRUE)
    ELSE RawTitle(title_data)

\* first_news_line of a statistics group.
StatsFirstLine(ft, stat) ==
    IF stat.titles # <<>>
    THEN <<ItemLine("stat_item", stat.word, 1, StatsTitle(ft, stat.titles[1]),
                    IF Len(stat.titles) > 1 THEN NewlineBytes ELSE 0)>>
    ELSE <<>>

\* word_with_first_news: the atomic unit of the i-th statistics group.
WordWithFirstNews(ft, i, stat) ==
    WordHeader(ft, i, stat) \o StatsFirstLine(ft, stat)

\* news_line of the j-th title (j >= 2) of a statistics group.
StatsNewsLine(ft, stat, j) ==
    <<ItemLine("stat_item", stat.word, j, StatsTitle(ft, stat.titles[j]),
               IF j < Len(stat.titles) THEN NewlineBytes ELSE 0)>>

\* separator between two statistics groups.
Separator(ft) ==
    IF ft \in {"wework", "bark", "telegram", "ntfy", "feishu", "dingtalk", "slack"}
    THEN <<Chunk("separator", 0, 0, FixedBytes, "")>>
    ELSE <<>>

\* truncated_hint is non-empty.
TruncatedHint(report, truncated, M) ==
    M > 0 /\ SumLen(truncated.new_titles) < report.total_new_count

\* new_header: it names total_new_count and carries the hint.
NewHeader(ft, report, truncated, M) ==
    IF ft \in {"wework", "bark", "telegram", "ntfy", "feishu", "dingtalk", "slack"}
    THEN <<Chunk("new_header", report.total_new_count,
                 SumLen(truncated.new_titles),
                 FixedBytes + (IF TruncatedHint(report, truncated, M)
                               THEN FixedBytes ELSE 0), "")>>
    ELSE <<>>

SourceHeader(ft, source_data) ==
    IF ft \in {"wework", "bark", "telegram", "ntfy", "feishu", "dingtalk", "slack"}
    THEN <<Chunk("source_header", source_data.source_name,
                 Len(source_data.titles), FixedBytes, "")>>
    ELSE <<>>

\* title_data.copy() with is_new = False
CopyNotNew(title_data) == [title_data EXCEPT !.is_new = FALSE]

\* The groups with is_new = False in the titles named by ids.
NotNewIn(groups, ids) ==
    [g \in 1..Len(groups) |->
        [groups[g] EXCEPT !.titles =
            [x \in 1..Len(groups[g].titles) |->
                IF groups[g].titles[x].title \in ids
                THEN CopyNotNew(groups[g].titles[x])
                ELSE groups[g].titles[x]]]]

\* Mutant of ResetOnCopy: is_new is set to False in the titles of the
\* report itself.
ResetInPlace(report, ids) ==
    [report EXCEPT !.stats = NotNewIn(report.stats, ids),
                   !.new_titles = NotNewIn(report.new_titles, ids)]

\* The caller's report after title_data.copy() and is_new = False on the
\* copy, for the titles named by ids: the write goes to the copy.
ResetOnCopy(report, ids) == report

\* The formatter of the first title of a source group.
NewFirstTitle(ft, title_data_copy) ==
    IF ft \in {"wework", "bark"}
    THEN format_title_for_platform("wework", title_data_copy, FALSE)
    ELSE IF ft \in {"telegram", "feishu", "dingtalk", "slack"}
    THEN format_title_for_platform(ft, title_data_copy, FALSE)
    ELSE RawTitle(title_data_copy)

\* The formatter of the later titles of a source group.
NewRestTitle(ft, title_data_copy) ==
    IF ft \in {"wework", "telegram", "feishu", "dingtalk", "slack"}
    THEN format_title_for_platform(ft, title_data_copy, FALSE)
    ELSE RawTitle(title_data_copy)

\* first_news_line of a source group.
NewFirstLine(ft, source_data) ==
    IF source_data.titles # <<>>
    THEN <<ItemLine("new_item", source_data.source_name, 1,
                    NewFirstTitle(ft, CopyNotNew(source_data.titles[1])), 0)>>
    ELSE <<>>

\* source_with_first_news: the atomic unit of a source group.
SourceWithFirstNews(ft, source_data) ==
    SourceHeader(ft, source_data) \o NewFirstLine(ft, source_data)

\* news_line of the j-th title (j >= 2) of a source group.
NewNewsLine(ft, source_data, j) ==
    <<ItemLine("new_item", source_data.source_name, j,
               NewRestTitle(ft, CopyNotNew(source_data.titles[j])), 0)>>

\* The "\n" that closes a source group.
Newline == <<Chunk("newline", 0, 0, NewlineBytes, "")>>

FailedHeader(ft) ==
    IF ft \in {"wework", "telegram", "ntfy", "feishu", "dingtalk"}
    THEN <<Chunk("failed_header", 0, 0, FixedBytes, "")>>
    ELSE <<>>

FailedLine(ft, id_value) == <<Chunk("failed_line", id_value, 0, FixedBytes, "")>>

\* Mutant of ModeText: one wording whatever the mode.
ModeTextSingle(m) == "other"

\* mode_text: one wording for incremental, one for current, one for the rest.
ModeText(m) ==
    IF m = "incremental" THEN "incremental"
    ELSE IF m = "current" THEN "current"
    ELSE "other"

\* simple_content
NoMatch(m) == <<Chunk("no_match", 0, 0, FixedBytes, ModeText(m))>>

\* ------------------------------------------------- the text of the renderers
\* The item lines of a statistics group as a renderer writes them:
\* f"  {j}. {formatted_title}\n", and "\n" more but after the last.
RenderStatItems(ft, stat) ==
    [jj \in 1..Len(stat.titles) |->
        ItemLine("stat_item", stat.word, jj,
                 format_title_for_platform(ft, stat.titles[jj], TRUE),
                 IF jj < Len(stat.titles) THEN NewlineBytes ELSE 0)]

RECURSIVE RenderStatGroups(_, _, _)
\* for i, stat in enumerate(truncated_stats): the groups from the k-th on,
\* each its header, its items and, but after the last, the separator.
RenderStatGroups(ft, truncated_stats, k) ==
    IF k > Len(truncated_stats) THEN <<>>
    ELSE <<Chunk("word_header", truncated_stats[k].word, k, FixedBytes, "")>>
         \o RenderStatItems(ft, truncated_stats[k])
         \o (IF k < Len(truncated_stats)
             THEN <<Chunk("separator", 0, 0, FixedBytes, "")>> ELSE <<>>)
         \o RenderStatGroups(ft, truncated_stats, k + 1)

\* stats_content
RenderStatsContent(ft, truncated_stats, show) ==
    IF show /\ truncated_stats # <<>>
    THEN <<Chunk("stats_header", 0, 0, FixedBytes, "")>>
         \o RenderStatGroups(ft, truncated_stats, 1)
    ELSE <<>>

RECURSIVE RenderSourceGroups(_, _, _)
\* for source_data in truncated_new_titles: the groups from the k-th on; the
\* flattened group shows no header and no closing "\n"; total_index runs
\* over all groups.
RenderSourceGroups(ft, truncated_new_titles, k) ==
    IF k > Len(truncated_new_titles) THEN <<>>
    ELSE LET source_data == truncated_new_titles[k]
             total_index == SumLen(SubSeq(truncated_new_titles, 1, k - 1))
             grouped == source_data.source_name # FlatSourceName
         IN  (IF grouped
              THEN <<Chunk("source_header", source_data.source_name,
                           Len(source_data.titles), FixedBytes, "")>>
              ELSE <<>>)
             \o [x \in 1..Len(source_data.titles) |->
                    ItemLine("new_item", source_data.source_name,
                             total_index + x,
                             format_title_for_platform(
                                 ft, CopyNotNew(source_data.titles[x]), TRUE),
                             0)]
             \o (IF grouped THEN Newline ELSE <<>>)
             \o RenderSourceGroups(ft, truncated_new_titles, k + 1)

\* new_titles_content
RenderNewTitlesContent(ft, truncated_new_titles) ==
    RenderSourceGroups(ft, truncated_new_titles, 1)

\* The two sections in the order asked for, the separator between them when
\* both are there.
RenderSections(stats_content, new_titles_content, rev) ==
    LET between == IF stats_content # <<>> /\ new_titles_content # <<>>
                   THEN <<Chunk("section_separator", 0, 0, FixedBytes, "")>>
                   ELSE <<>>
    IN  IF rev
        THEN new_titles_content \o between \o stats_content
        ELSE stats_content \o between \o new_titles_content

\* mode_text of the renderers.
RenderModeText(m) ==
    IF m = "incremental" THEN "incremental"
    ELSE IF m = "current" THEN "current"
    ELSE "other"

\* The "no matches" placeholder of the renderers.
RenderNoMatch(m) == <<Chunk("no_match", 0, 0, FixedBytes, RenderModeText(m))>>

\* "暂无匹配" in text_content: a substring test over the whole text, which
\* the placeholder passes and so does every line showing a title whose own
\* text holds these words.
HasNoMatchWords(text_content) ==
    \E x \in 1..Len(text_content) :
        \/ text_content[x].k = "no_match"
        \/ TitleSaysNoMatch(text_content[x].t)

\* The failed-sources section of a renderer: the separator when `separated`,
\* the label, one line per id.
RenderFailed(ids, separated) ==
    IF ids # <<>>
    THEN (IF separated
          THEN <<Chunk("failed_separator", 0, 0, FixedBytes, "")>> ELSE <<>>)
         \o <<Chunk("failed_header", 0, 0, FixedBytes, "")>>
         \o [x \in 1..Len(ids) |-> Chunk("failed_line", ids[x], 0, FixedBytes, "")]
    ELSE <<>>

\* The closing line with the time.
RenderFooter(time) == <<Chunk("render_footer", time, 0, FooterBytes, "")>>

\* The text render_feishu_content returns.
FeishuText(report, M, show, m, rev, time) ==
    LET t == FeishuTruncate(report, M, show)
        stats_content == RenderStatsContent("feishu", t.stats, show)
        new_titles_content == RenderNewTitlesContent("feishu", t.new_titles)
        sections == RenderSections(stats_content, new_titles_content, rev)
        text_content == IF sections = <<>> THEN RenderNoMatch(m) ELSE sections
    IN  text_content
            \o RenderFailed(report.failed_ids,
                            text_content # <<>> /\ ~HasNoMatchWords(text_content))
            \o RenderFooter(time)

\* The text render_dingtalk_content returns.
DingtalkText(report, M, show, m, rev, time) ==
    LET t == DingtalkTruncate(report, M, show)
        header_content ==
            <<Chunk("render_header", TotalTitles(t.stats), time, FixedBytes, "")>>
        stats_content == RenderStatsContent("dingtalk", t.stats, show)
        new_titles_content == RenderNewTitlesContent("dingtalk", t.new_titles)
        text_content ==
            header_content
                \o RenderSections(stats_content, new_titles_content, rev)
                \o (IF stats_content = <<>> /\ new_titles_content = <<>>
                    THEN RenderNoMatch(m) ELSE <<>>)
    IN  text_content
            \o RenderFailed(report.failed_ids, ~HasNoMatchWords(text_content))
            \o RenderFooter(time)

\* ------------------------------------------------------------------ state
VARIABLES
    report_data,              \* the input report (read only)
    format_type,              \* the platform
    max_bytes,                \* the byte budget
    mode,                     \* the report mode
    reverse_content_order,    \* new items before statistics
    max_total_news_in_push,   \* the truncation budget (0: none)
    show_stats_in_push,       \* statistics are shown
    truncated_report_data,    \* the report after pre-processing
    batches,                  \* the finished batches
    current_batch,            \* the batch being accumulated
    current_batch_has_content,
    pc,                       \* the place in split_content_into_batches
    section,                  \* 1 or 2: which section call is running
    i,                        \* index of the group or failed id being placed
    j,                        \* index of the next title of that group
    feishu_truncated,         \* truncated_stats/new_titles of render_feishu_content
    dingtalk_truncated,       \* the same of render_dingtalk_content
    rendered,                 \* the renderers that have run
    max_bytes_arg,            \* the max_bytes argument: <<>> (None) or <<n>>
    batch_sizes,              \* the batch_sizes argument (no key: None or {})
    render_mode,              \* the mode argument of the renderers
    feishu_text,              \* the text returned by render_feishu_content
    dingtalk_text,            \* the text returned by render_dingtalk_content
    call,                     \* 1 or 2: the first call or its repetition
    first                     \* what the first calls returned

given == <<format_type, max_bytes, reverse_content_order,
           max_total_news_in_push, show_stats_in_push, max_bytes_arg,
           batch_sizes, render_mode>>
args == <<report_data, given>>
render == <<feishu_truncated, dingtalk_truncated, rendered, feishu_text,
            dingtalk_text>>
calls == <<call, first>>
vars == <<args, mode, truncated_report_data, batches, current_batch,
          current_batch_has_content, pc, section, i, j, render, calls>>

\* Nothing returned yet.
NothingYet == [batches |-> <<>>, feishu |-> <<>>, dingtalk |-> <<>>]

\* The state of split_content_into_batches once the budget is known, for a
\* report out of `reports`, a platform out of `platforms`, max_bytes given
\* and up to `bytes`, and truncation budgets up to `total`.
EntryFor(reports, platforms, bytes, total, modes) ==
    /\ report_data \in reports
    /\ format_type \in platforms
    /\ max_bytes \in 1..bytes
    /\ mode = "daily"
    /\ reverse_content_order \in BOOLEAN
    /\ max_total_news_in_push \in 0..total
    /\ show_stats_in_push \in BOOLEAN
    /\ truncated_report_data = report_data
    /\ batches = <<>>
    /\ current_batch = <<>>
    /\ current_batch_has_content = FALSE
    /\ pc = "truncate"
    /\ section = 1
    /\ i = 1
    /\ j = 1
    /\ feishu_truncated = [stats |-> <<>>, new_titles |-> <<>>]
    /\ dingtalk_truncated = [stats |-> <<>>, new_titles |-> <<>>]
    /\ rendered = {}
    /\ max_bytes_arg = <<max_bytes>>
    /\ batch_sizes = <<>>
    /\ render_mode \in modes
    /\ feishu_text = <<>>
    /\ dingtalk_text = <<>>
    /\ call = 1
    /\ first = NothingYet

\* The same, the renderers being given the mode "daily".
Entry(reports, platforms, bytes, total) ==
    EntryFor(reports, platforms, bytes, total, {"daily"})

\* Every group of the report holds a title (the aggregator reports the words
\* and sources it found news for).
Init ==
    Entry(Reports(MaxTitles, MaxFailed, MaxTitles, 1), Platforms, MaxBytes,
          MaxTotal)

\* ----------------------------------------------- strings of the current call
stats == truncated_report_data.stats
new_titles == truncated_report_data.new_titles
failed_ids == report_data.failed_ids

now == get_time_func(call)
base_header == BaseHeader(format_type, TotalTitles(stats), now)
base_footer == BaseFooter(format_type, now)
stats_header == StatsHeader(format_type, stats)
new_header ==
    NewHeader(format_type, report_data, truncated_report_data,
              max_total_news_in_push)
failed_header == FailedHeader(format_type)

\* Mutant of Fits: one fixed string more is kept free in every batch.
FitsLeavingRoom(test_content) ==
    Bytes(test_content) + Bytes(base_footer) + FixedBytes < max_bytes

\* Mutant of Fits: the footer is left out of the trial size.
FitsWithoutFooter(test_content) == Bytes(test_content) < max_bytes

\* Mutant of Fits: a trial size equal to the budget passes.
FitsUpToBudget(test_content) ==
    Bytes(test_content) + Bytes(base_footer) <= max_bytes

\* len(test_content.encode("utf-8")) + len(base_footer.encode("utf-8")) < max_bytes
Fits(test_content) == Bytes(test_content) + Bytes(base_footer) < max_bytes

\* Mutant of Place: the chunk that did not fit is lost, the next batch starts
\* from the fixed header alone.
PlaceLosingChunk(chunk, seed) ==
    /\ IF Fits(current_batch \o chunk)
       THEN /\ current_batch' = current_batch \o chunk
            /\ batches' = batches
       ELSE /\ batches' = IF current_batch_has_content
                          THEN Append(batches, current_batch \o base_footer)
                          ELSE batches
            /\ current_batch' = base_header
    /\ current_batch_has_content' = TRUE

\* Mutant of Place: a unit that does not fit is split, its first string (the
\* group header) closing the current batch and the rest opening the next.
PlaceHeaderApart(chunk, seed) ==
    /\ IF Fits(current_batch \o chunk) \/ chunk = <<>>
       THEN /\ current_batch' = current_batch \o chunk
            /\ batches' = batches
       ELSE /\ batches' = Append(batches,
                                 current_batch \o <<Head(chunk)>> \o base_footer)
            /\ current_batch' = base_header \o Tail(chunk)
    /\ current_batch_has_content' = TRUE

\* Mutant of Place: a finished batch is pushed without the footer.
PlaceWithoutFooter(chunk, seed) ==
    /\ IF Fits(current_batch \o chunk)
       THEN /\ current_batch' = current_batch \o chunk
            /\ batches' = batches
       ELSE /\ batches' = IF current_batch_has_content
                          THEN Append(batches, current_batch)
                          ELSE batches
            /\ current_batch' = seed
    /\ current_batch_has_content' = TRUE

\* Mutant of Place: the current batch is pushed whenever the chunk does not
\* fit, content or not.
PlaceFlushingEmpty(chunk, seed) ==
    /\ IF Fits(current_batch \o chunk)
       THEN /\ current_batch' = current_batch \o chunk
            /\ batches' = batches
       ELSE /\ batches' = Append(batches, current_batch \o base_footer)
            /\ current_batch' = seed
    /\ current_batch_has_content' = TRUE

\* The trial append of `chunk`: committed when it fits; otherwise the current
\* batch, if it has content, is finished with the footer and the next batch
\* starts as `seed`.
Place(chunk, seed) ==
    /\ IF Fits(current_batch \o chunk)
       THEN /\ current_batch' = current_batch \o chunk
            /\ batches' = batches
       ELSE /\ batches' = IF current_batch_has_content
                          THEN Append(batches, current_batch \o base_footer)
                          ELSE batches
            /\ current_batch' = seed
    /\ current_batch_has_content' = TRUE

\* Mutant of SectionOrder: the statistics always first.
SectionOrderFixed == <<"stats", "new">>

\* The order of the two section calls.
SectionOrder ==
    IF reverse_content_order THEN <<"new", "stats">> ELSE <<"stats", "new">>

\* Where control goes when the running section call returns.
AfterSection ==
    IF section = 1
    THEN /\ section' = 2
         /\ pc' = SectionOrder[2]
    ELSE /\ section' = section
         /\ pc' = "failed"

\* ---------------------------------------------------------------- actions
\* Pre-processing: the truncation, then current_batch = base_header.
Truncate ==
    /\ pc = "truncate"
    /\ truncated_report_data' =
           SplitTruncate(report_data, max_total_news_in_push, show_stats_in_push)
    /\ current_batch' =
           BaseHeader(format_type, TotalTitles(truncated_report_data'.stats),
                      now)
    /\ current_batch_has_content' = FALSE
    /\ pc' = "check"
    /\ UNCHANGED <<args, mode, batches, section, i, j, render, calls>>

\* Mutant of EmitNoMatch: the failed ids are not looked at.
EmitNoMatchDespiteFailed ==
    /\ pc = "check"
    /\ stats = <<>> /\ new_titles = <<>>
    /\ \E m \in (IF call = 1 THEN Modes ELSE {mode}) :
          /\ mode' = m
          /\ batches' = Append(batches, base_header \o NoMatch(m) \o base_footer)
    /\ pc' = "done"
    /\ UNCHANGED <<args, truncated_report_data, current_batch,
                   current_batch_has_content, section, i, j, render, calls>>

\* Nothing to report: the single "no matches" batch, for the mode given (the
\* mode is drawn where the first call reads it; a repeated call is given the
\* same).
EmitNoMatch ==
    /\ pc = "check"
    /\ stats = <<>> /\ new_titles = <<>> /\ failed_ids = <<>>
    /\ \E m \in (IF call = 1 THEN Modes ELSE {mode}) :
          /\ mode' = m
          /\ batches' = Append(batches, base_header \o NoMatch(m) \o base_footer)
    /\ pc' = "done"
    /\ UNCHANGED <<args, truncated_report_data, current_batch,
                   current_batch_has_content, section, i, j, render, calls>>

\* Something to report: the first section call.
Begin ==
    /\ pc = "check"
    /\ ~(stats = <<>> /\ new_titles = <<>> /\ failed_ids = <<>>)
    /\ pc' = SectionOrder[1]
    /\ section' = 1
    /\ UNCHANGED <<args, mode, truncated_report_data, batches, current_batch,
                   current_batch_has_content, i, j, render, calls>>

\* process_stats_section with no statistics: returns at once.
StatsSkip ==
    /\ pc = "stats"
    /\ stats = <<>>
    /\ AfterSection
    /\ UNCHANGED <<args, mode, truncated_report_data, batches, current_batch,
                   current_batch_has_content, i, j, render, calls>>

\* The statistics section header.
PlaceStatsHeader ==
    /\ pc = "stats"
    /\ stats # <<>>
    /\ Place(stats_header, base_header \o stats_header)
    /\ i' = 1
    /\ pc' = "word"
    /\ UNCHANGED <<args, mode, truncated_report_data, section, j, render, calls>>

\* The i-th word group: its header and its first item, as one unit.
PlaceWordGroup ==
    /\ pc = "word"
    /\ LET stat == stats[i]
           word_with_first_news == WordWithFirstNews(format_type, i, stat)
       IN  Place(word_with_first_news,
                 base_header \o stats_header \o word_with_first_news)
    /\ j' = 2
    /\ pc' = "stat_item"
    /\ UNCHANGED <<args, mode, truncated_report_data, section, i, render, calls>>

\* Mutant of PlaceStatsItem: an item that does not fit is tried again after
\* the flush, the next batch starting without it.
PlaceStatsItemRetry ==
    /\ pc = "stat_item"
    /\ j <= Len(stats[i].titles)
    /\ LET stat == stats[i]
           news_line == StatsNewsLine(format_type, stat, j)
       IN  IF Fits(current_batch \o news_line)
           THEN /\ current_batch' = current_batch \o news_line
                /\ current_batch_has_content' = TRUE
                /\ batches' = batches
                /\ j' = j + 1
           ELSE /\ batches' = IF current_batch_has_content
                              THEN Append(batches, current_batch \o base_footer)
                              ELSE batches
                /\ current_batch' =
                       base_header \o stats_header
                           \o WordHeader(format_type, i, stat)
                /\ current_batch_has_content' = FALSE
                /\ j' = j
    /\ UNCHANGED <<args, mode, truncated_report_data, pc, section, i, render,
                   calls>>

\* The j-th item (j >= 2) of the i-th word group.
PlaceStatsItem ==
    /\ pc = "stat_item"
    /\ j <= Len(stats[i].titles)
    /\ LET stat == stats[i]
           news_line == StatsNewsLine(format_type, stat, j)
       IN  Place(news_line,
                 base_header \o stats_header \o WordHeader(format_type, i, stat)
                     \o news_line)
    /\ j' = j + 1
    /\ UNCHANGED <<args, mode, truncated_report_data, pc, section, i, render, calls>>

\* The separator after a word group that is not the last: kept when it fits.
PlaceSeparator ==
    /\ pc = "stat_item"
    /\ j > Len(stats[i].titles)
    /\ i < Len(stats)
    /\ current_batch' =
           IF Fits(current_batch \o Separator(format_type))
           THEN current_batch \o Separator(format_type)
           ELSE current_batch
    /\ i' = i + 1
    /\ pc' = "word"
    /\ UNCHANGED <<args, mode, truncated_report_data, batches,
                   current_batch_has_content, section, j, render, calls>>

\* After the last word group process_stats_section returns.
StatsReturn ==
    /\ pc = "stat_item"
    /\ j > Len(stats[i].titles)
    /\ i = Len(stats)
    /\ AfterSection
    /\ UNCHANGED <<args, mode, truncated_report_data, batches, current_batch,
                   current_batch_has_content, i, j, render, calls>>

\* process_new_titles_section with no new titles: returns at once.
NewSkip ==
    /\ pc = "new"
    /\ new_titles = <<>>
    /\ AfterSection
    /\ UNCHANGED <<args, mode, truncated_report_data, batches, current_batch,
                   current_batch_has_content, i, j, render, calls>>

\* The new-items section header.
PlaceNewHeader ==
    /\ pc = "new"
    /\ new_titles # <<>>
    /\ Place(new_header, base_header \o new_header)
    /\ i' = 1
    /\ pc' = "source"
    /\ UNCHANGED <<args, mode, truncated_report_data, section, j, render, calls>>

\* The i-th source group: its header and its first item, as one unit.
PlaceSourceGroup ==
    /\ pc = "source"
    /\ LET source_data == new_titles[i]
           source_with_first_news ==
               SourceWithFirstNews(format_type, source_data)
       IN  /\ Place(source_with_first_news,
                     base_header \o new_header \o source_with_first_news)
           /\ report_data' =
                  ResetOnCopy(report_data,
                              {source_data.titles[x].title :
                                  x \in 1..Min(1, Len(source_data.titles))})
    /\ j' = 2
    /\ pc' = "new_item"
    /\ UNCHANGED <<given, mode, truncated_report_data, section, i, render,
                   calls>>

\* The j-th item (j >= 2) of the i-th source group.
PlaceNewItem ==
    /\ pc = "new_item"
    /\ j <= Len(new_titles[i].titles)
    /\ LET source_data == new_titles[i]
           news_line == NewNewsLine(format_type, source_data, j)
       IN  /\ Place(news_line,
                     base_header \o new_header
                         \o SourceHeader(format_type, source_data) \o news_line)
           /\ report_data' =
                  ResetOnCopy(report_data, {source_data.titles[j].title})
    /\ j' = j + 1
    /\ UNCHANGED <<given, mode, truncated_report_data, pc, section, i, render,
                   calls>>

\* The "\n" closing a source group, then the next group or the return.
CloseSource ==
    /\ pc = "new_item"
    /\ j > Len(new_titles[i].titles)
    /\ current_batch' = current_batch \o Newline
    /\ IF i < Len(new_titles)
       THEN /\ i' = i + 1
            /\ pc' = "source"
            /\ section' = section
       ELSE /\ i' = i
            /\ AfterSection
    /\ UNCHANGED <<args, mode, truncated_report_data, batches,
                   current_batch_has_content, j, render, calls>>

\* No failed ids: straight to the last batch.
FailedSkip ==
    /\ pc = "failed"
    /\ failed_ids = <<>>
    /\ pc' = "finish"
    /\ UNCHANGED <<args, mode, truncated_report_data, batches, current_batch,
                   current_batch_has_content, section, i, j, render, calls>>

\* The failed-ids section header.
PlaceFailedHeader ==
    /\ pc = "failed"
    /\ failed_ids # <<>>
    /\ Place(failed_header, base_header \o failed_header)
    /\ i' = 1
    /\ pc' = "failed_line"
    /\ UNCHANGED <<args, mode, truncated_report_data, section, j, render, calls>>

\* The line of the i-th failed id.
PlaceFailedLine ==
    /\ pc = "failed_line"
    /\ i <= Len(failed_ids)
    /\ LET failed_line == FailedLine(format_type, failed_ids[i])
       IN  Place(failed_line, base_header \o failed_header \o failed_line)
    /\ i' = i + 1
    /\ UNCHANGED <<args, mode, truncated_report_data, pc, section, j, render, calls>>

\* All failed ids placed.
FailedDone ==
    /\ pc = "failed_line"
    /\ i > Len(failed_ids)
    /\ pc' = "finish"
    /\ UNCHANGED <<args, mode, truncated_report_data, batches, current_batch,
                   current_batch_has_content, section, i, j, render, calls>>

\* Mutant of Finalize: the last batch takes the place of the list.
FinalizeAlone ==
    /\ pc = "finish"
    /\ batches' = IF current_batch_has_content
                  THEN <<current_batch \o base_footer>>
                  ELSE batches
    /\ pc' = "done"
    /\ UNCHANGED <<args, mode, truncated_report_data, current_batch,
                   current_batch_has_content, section, i, j, render, calls>>

\* The last batch, if it has content; the function returns.
Finalize ==
    /\ pc = "finish"
    /\ batches' = IF current_batch_has_content
                  THEN Append(batches, current_batch \o base_footer)
                  ELSE batches
    /\ pc' = "done"
    /\ UNCHANGED <<args, mode, truncated_report_data, current_batch,
                   current_batch_has_content, section, i, j, render, calls>>

Next ==
    \/ Truncate
    \/ EmitNoMatch
    \/ Begin
    \/ StatsSkip
    \/ PlaceStatsHeader
    \/ PlaceWordGroup
    \/ PlaceStatsItem
    \/ PlaceSeparator
    \/ StatsReturn
    \/ NewSkip
    \/ PlaceNewHeader
    \/ PlaceSourceGroup
    \/ PlaceNewItem
    \/ CloseSource
    \/ FailedSkip
    \/ PlaceFailedHeader
    \/ PlaceFailedLine
    \/ FailedDone
    \/ Finalize

Spec == Init /\ [][Next]_vars

\* ------------------------------------- the pre-processing of the renderers
\* render_feishu_content: its pre-processing and the text it returns.
FeishuPreprocess ==
    /\ "feishu" \notin rendered
    /\ feishu_truncated' =
           FeishuTruncate(report_data, max_total_news_in_push, show_stats_in_push)
    /\ feishu_text' =
           FeishuText(report_data, max_total_news_in_push, show_stats_in_push,
                      render_mode, reverse_content_order, now)
    /\ report_data' =
           ResetOnCopy(report_data,
                       {t.title : t \in Range(AllTitles(feishu_truncated'.new_titles))})
    /\ rendered' = rendered \cup {"feishu"}
    /\ UNCHANGED <<given, mode, truncated_report_data, batches, current_batch,
                   current_batch_has_content, pc, section, i, j,
                   dingtalk_truncated, dingtalk_text, calls>>

\* render_dingtalk_content: its pre-processing and the text it returns.
DingtalkPreprocess ==
    /\ "dingtalk" \notin rendered
    /\ dingtalk_truncated' =
           DingtalkTruncate(report_data, max_total_news_in_push,
                            show_stats_in_push)
    /\ dingtalk_text' =
           DingtalkText(report_data, max_total_news_in_push, show_stats_in_push,
                        render_mode, reverse_content_order, now)
    /\ report_data' =
           ResetOnCopy(report_data,
                       {t.title : t \in Range(AllTitles(dingtalk_truncated'.new_titles))})
    /\ rendered' = rendered \cup {"dingtalk"}
    /\ UNCHANGED <<given, mode, truncated_report_data, batches, current_batch,
                   current_batch_has_content, pc, section, i, j,
                   feishu_truncated, feishu_text, calls>>

\* The three pre-processings over one report, in any order; the report may
\* hold groups without titles.
InitPre ==
    /\ Entry(Reports(MaxTitlesPre, 0, MaxGroupsPre, 0), {"feishu"}, 1,
             MaxTotalPre)
    /\ reverse_content_order = FALSE

NextPre ==
    \/ Truncate
    \/ FeishuPreprocess
    \/ DingtalkPreprocess

SpecPre == InitPre /\ [][NextPre]_vars

\* ------------------------------------------------------------ the budget
\* DEFAULT_BATCH_SIZES
DefaultDingtalk == 20000
DefaultFeishu == 29000
DefaultNtfy == 3800
DefaultOther == 4000

DEFAULT_BATCH_SIZES ==
    [k \in {"dingtalk", "feishu", "ntfy", "default"} |->
        CASE k = "dingtalk" -> DefaultDingtalk
          [] k = "feishu" -> DefaultFeishu
          [] k = "ntfy" -> DefaultNtfy
          [] OTHER -> DefaultOther]

\* Mutant of MergeSizes: the defaults win over the caller's mapping.
MergeSizesDefaultsFirst(defaults, given_sizes) ==
    [k \in DOMAIN defaults \cup DOMAIN given_sizes |->
        IF k \in DOMAIN defaults THEN defaults[k] ELSE given_sizes[k]]

\* {**DEFAULT_BATCH_SIZES, **(batch_sizes or {})}
MergeSizes(defaults, given_sizes) ==
    [k \in DOMAIN defaults \cup DOMAIN given_sizes |->
        IF k \in DOMAIN given_sizes THEN given_sizes[k] ELSE defaults[k]]

\* sizes.get(key, fallback)
Get(sizes, key, fallback) ==
    IF key \in DOMAIN sizes THEN sizes[key] ELSE fallback

\* max_bytes once the function has looked at its arguments.
ResolvedBudget(ft, given_bytes, given_sizes) ==
    LET sizes == MergeSizes(DEFAULT_BATCH_SIZES, given_sizes)
    IN  IF given_bytes = <<>>
        THEN IF ft = "dingtalk" THEN Get(sizes, "dingtalk", DefaultDingtalk)
             ELSE IF ft = "feishu" THEN Get(sizes, "feishu", DefaultFeishu)
             ELSE IF ft = "ntfy" THEN Get(sizes, "ntfy", DefaultNtfy)
             ELSE Get(sizes, "default", DefaultOther)
        ELSE given_bytes[1]

\* The first step of split_content_into_batches: the budget.
ResolveBudget ==
    /\ pc = "budget"
    /\ max_bytes' = ResolvedBudget(format_type, max_bytes_arg, batch_sizes)
    /\ pc' = "truncate"
    /\ UNCHANGED <<report_data, format_type, reverse_content_order,
                   max_total_news_in_push, show_stats_in_push, max_bytes_arg,
                   batch_sizes, render_mode, mode, truncated_report_data,
                   batches, current_batch, current_batch_has_content, section,
                   i, j, render, calls>>

\* The keys a caller's batch_sizes may hold: those the code reads and one it
\* does not.
SizeKeys == {"dingtalk", "feishu", "ntfy", "default", "bark"}

\* The calls with max_bytes left out or given (up to MaxBytesArg) and a
\* batch_sizes mapping of some keys to sizes up to MaxSize; no key stands for
\* a mapping left out.
InitBudget ==
    /\ report_data \in Reports(0, 0, 0, 1)
    /\ format_type \in Platforms
    /\ max_bytes_arg \in {<<>>} \cup {<<b>> : b \in 0..MaxBytesArg}
    /\ batch_sizes \in UNION {[ks -> 1..MaxSize] : ks \in SUBSET SizeKeys}
    /\ max_bytes = 0
    /\ mode = "daily"
    /\ reverse_content_order = FALSE
    /\ max_total_news_in_push = 0
    /\ show_stats_in_push = TRUE
    /\ truncated_report_data = report_data
    /\ batches = <<>>
    /\ current_batch = <<>>
    /\ current_batch_has_content = FALSE
    /\ pc = "budget"
    /\ section = 1
    /\ i = 1
    /\ j = 1
    /\ feishu_truncated = [stats |-> <<>>, new_titles |-> <<>>]
    /\ dingtalk_truncated = [stats |-> <<>>, new_titles |-> <<>>]
    /\ rendered = {}
    /\ render_mode = "daily"
    /\ feishu_text = <<>>
    /\ dingtalk_text = <<>>
    /\ call = 1
    /\ first = NothingYet

NextBudget == ResolveBudget

SpecBudget == InitBudget /\ [][NextBudget]_vars

\* ------------------------------------------------------------ termination
\* One call of split_content_into_batches that runs on: the interpreter takes
\* the next step of the function as long as there is one.
InitLive ==
    Entry(Reports(MaxTitlesLive, MaxFailedLive, MaxTitlesLive, 1), Platforms,
          MaxBytesLive, MaxTotalLive)

SpecLive == InitLive /\ [][Next]_vars /\ WF_vars(Next)

\* ---------------------------------------------- a call and its repetition
\* The caller, having got the batches and both texts, makes the three calls
\* again with the same arguments.
CallAgain ==
    /\ call = 1
    /\ pc = "done"
    /\ rendered = {"feishu", "dingtalk"}
    /\ first' = [batches |-> batches, feishu |-> feishu_text,
                 dingtalk |-> dingtalk_text]
    /\ call' = 2
    /\ truncated_report_data' = report_data
    /\ batches' = <<>>
    /\ current_batch' = <<>>
    /\ current_batch_has_content' = FALSE
    /\ pc' = "truncate"
    /\ section' = 1
    /\ i' = 1
    /\ j' = 1
    /\ feishu_truncated' = [stats |-> <<>>, new_titles |-> <<>>]
    /\ dingtalk_truncated' = [stats |-> <<>>, new_titles |-> <<>>]
    /\ rendered' = {}
    /\ feishu_text' = <<>>
    /\ dingtalk_text' = <<>>
    /\ UNCHANGED <<args, mode>>

\* The splitter and the two renderers over one report, their steps
\* interleaved, then all three once more.
InitTwice ==
    Entry(Reports(MaxTitlesTwice, MaxFailedTwice, MaxTitlesTwice, 1),
          {"feishu", "dingtalk"}, MaxBytesTwice, MaxTotalTwice)

NextTwice ==
    \/ Next
    \/ FeishuPreprocess
    \/ DingtalkPreprocess
    \/ CallAgain

SpecTwice == InitTwice /\ [][NextTwice]_vars

\* ------------------------------------ reports with groups without titles
\* The splitter and the two renderers over one report that may hold groups
\* without titles, the renderers in any of the modes.
InitEmpty ==
    EntryFor(Reports(MaxTitlesEmpty, MaxFailedEmpty, MaxGroupsEmpty, 0),
             {"feishu", "dingtalk"}, MaxBytesEmpty, MaxTotalEmpty, Modes)

NextEmpty ==
    \/ Next
    \/ FeishuPreprocess
    \/ DingtalkPreprocess

SpecEmpty == InitEmpty /\ [][NextEmpty]_vars

\* ------------------------------------------------------------ properties
\* The first n elements of s (all of s when it is shorter).
FirstN(s, n) == SubSeq(s, 1, IF n < Len(s) THEN n ELSE Len(s))

RECURSIVE GroupTitles(_)
\* The titles of the groups, concatenated in order.
GroupTitles(groups) ==
    IF groups = <<>> THEN <<>>
    ELSE Head(groups).titles \o GroupTitles(Tail(groups))

\* The number of titles two lists of groups hold together.
Retained(t) == Len(GroupTitles(t.stats)) + Len(GroupTitles(t.new_titles))

\* C5: with max_total_news_in_push = M > 0 the groups retained by the
\* pre-processing of split_content_into_batches, of render_feishu_content and
\* of render_dingtalk_content hold at most M titles together, whatever
\* show_stats_in_push is.
C5_TruncationCap ==
    max_total_news_in_push > 0 =>
        /\ pc # "truncate" =>
               Retained(truncated_report_data) <= max_total_news_in_push
        /\ "feishu" \in rendered =>
               Retained(feishu_truncated) <= max_total_news_in_push
        /\ "dingtalk" \in rendered =>
               Retained(dingtalk_truncated) <= max_total_news_in_push

\* C5 witness: all three pre-processings have cut a report of more than M
\* titles, with statistics flattened by the renderers, down to exactly M.
C5_Witness ==
    /\ max_total_news_in_push > 0
    /\ ~show_stats_in_push
    /\ Len(report_data.stats) >= 2
    /\ Len(GroupTitles(report_data.new_titles)) > max_total_news_in_push
    /\ pc # "truncate"
    /\ rendered = {"feishu", "dingtalk"}
    /\ Retained(truncated_report_data) = max_total_news_in_push
    /\ Retained(feishu_truncated) = max_total_news_in_push
    /\ Retained(dingtalk_truncated) = max_total_news_in_push

\* The groups that hold a title.
NonEmpty(groups) == SelectSeq(groups, LAMBDA g : g.titles # <<>>)

\* The groups `kept` are, one for one, the first groups of `orig`, each with
\* a non-empty prefix of its titles.
PrefixGroups(kept, orig, name(_)) ==
    /\ Len(kept) <= Len(orig)
    /\ \A k \in 1..Len(kept) :
          /\ name(kept[k]) = name(orig[k])
          /\ kept[k].titles # <<>>
          /\ kept[k].titles = FirstN(orig[k].titles, Len(kept[k].titles))

\* The number of groups of `kept` that lost titles.
PartlyKept(kept, orig) ==
    Cardinality({k \in 1..Len(kept) :
                    Len(kept[k].titles) < Len(orig[k].titles)})

\* C6: truncation with M > 0 in split_content_into_batches keeps exactly the
\* first min(M, N) titles of the stats titles (when shown) followed by the
\* new_titles titles; every retained group is a prefix of its original, in
\* input order (groups without titles are left out), at most one group is
\* partly kept, and no group follows the point where the budget is exhausted.
C6_TruncationPrefix ==
    (pc # "truncate" /\ max_total_news_in_push > 0) =>
        LET shown == IF show_stats_in_push THEN report_data.stats ELSE <<>>
            orig == GroupTitles(shown) \o GroupTitles(report_data.new_titles)
            kept == GroupTitles(truncated_report_data.stats)
                        \o GroupTitles(truncated_report_data.new_titles)
        IN  /\ kept = FirstN(orig, max_total_news_in_push)
            /\ PrefixGroups(truncated_report_data.stats, NonEmpty(shown),
                            LAMBDA g : g.word)
            /\ PrefixGroups(truncated_report_data.new_titles,
                            NonEmpty(report_data.new_titles),
                            LAMBDA g : g.source_name)
            /\ \A k \in 1..Len(truncated_report_data.stats) :
                   truncated_report_data.stats[k].count
                       = Len(truncated_report_data.stats[k].titles)
            /\ PartlyKept(truncated_report_data.stats, NonEmpty(shown))
                   + PartlyKept(truncated_report_data.new_titles,
                                NonEmpty(report_data.new_titles)) <= 1

\* C6 witness: M = 2 cuts the first statistics group to two of its three
\* titles and drops the second group and the new titles.
C6_Witness ==
    /\ pc # "truncate"
    /\ max_total_news_in_push = 2
    /\ show_stats_in_push
    /\ Len(report_data.stats) = 2
    /\ Len(report_data.stats[1].titles) = 3
    /\ report_data.new_titles # <<>>
    /\ Len(truncated_report_data.stats) = 1
    /\ Len(truncated_report_data.stats[1].titles) = 2
    /\ truncated_report_data.new_titles = <<>>

\* ----------------------------------------------------- batches, as read
\* An item line: of a statistics group, of a source group, or a failed id.
IsItem(c) == c.k \in {"stat_item", "new_item", "failed_line"}

\* The item lines of a text.
ItemsIn(text) == SelectSeq(text, IsItem)

\* What a finished batch holds between the fixed header and the footer.
ContentOf(batch) ==
    SubSeq(batch, Len(base_header) + 1, Len(batch) - Len(base_footer))

RECURSIVE Flat(_)
\* The batches, concatenated in order.
Flat(bs) == IF bs = <<>> THEN <<>> ELSE Head(bs) \o Flat(Tail(bs))

\* The lines of kind k in a text, as <<group, number, title>>.
LinesOf(text, k) ==
    LET ls == SelectSeq(text, LAMBDA c : c.k = k)
    IN  [x \in 1..Len(ls) |-> <<ls[x].g, ls[x].j, ls[x].t>>]

RECURSIVE NamedPairs(_)
\* The pairs of groups given as [name, titles] records.
NamedPairs(named) ==
    IF named = <<>> THEN <<>>
    ELSE [x \in 1..Len(Head(named).titles) |->
             <<Head(named).name, x, Head(named).titles[x].title>>]
         \o NamedPairs(Tail(named))

\* Every (group, item) pair of the groups, in order, as <<group, number, title>>.
PairsOf(groups, name(_)) ==
    NamedPairs([x \in 1..Len(groups) |->
                   [name |-> name(groups[x]), titles |-> groups[x].titles]])

\* The batch is over the byte budget.
OverBudget(batch) == Bytes(batch) > max_bytes

\* C1 (as stated): every batch is within max_bytes, footer included, except
\* a batch that holds a single atomic unit (exactly one item line).
C1_BudgetBoundAsStated ==
    \A x \in 1..Len(batches) :
        OverBudget(batches[x]) => Len(ItemsIn(batches[x])) = 1

\* C1 (amended): every batch that holds two item lines or more is within
\* max_bytes, footer included; only a batch with a single force-placed unit,
\* or with no item line at all, may be over it.
C1_BudgetBound ==
    \A x \in 1..Len(batches) :
        Len(ItemsIn(batches[x])) >= 2 => Bytes(batches[x]) <= max_bytes

\* C1 witness: the run is over, one batch holds two items within the budget
\* and a later one holds a single unit and is over the budget.
C1_Witness ==
    /\ pc = "done"
    /\ \E x, y \in 1..Len(batches) :
          /\ x < y
          /\ Len(ItemsIn(batches[x])) >= 2
          /\ ~OverBudget(batches[x])
          /\ Len(ItemsIn(batches[y])) = 1
          /\ OverBudget(batches[y])

\* C2: at the end the item lines of the batches, read in batch order, are the
\* (group, item) pairs of the pre-processed report, each once and in order,
\* for the statistics groups and for the source groups.
C2_Completeness ==
    pc = "done" =>
        /\ LinesOf(Flat(batches), "stat_item")
               = PairsOf(truncated_report_data.stats, LAMBDA g : g.word)
        /\ LinesOf(Flat(batches), "new_item")
               = PairsOf(truncated_report_data.new_titles,
                         LAMBDA g : g.source_name)

\* C2 witness: a finished run of at least three batches, one of them over the
\* budget, that placed statistics items and new items.
C2_Witness ==
    /\ pc = "done"
    /\ Len(batches) >= 3
    /\ \E x \in 1..Len(batches) : OverBudget(batches[x])
    /\ Len(LinesOf(Flat(batches), "stat_item")) >= 2
    /\ Len(LinesOf(Flat(batches), "new_item")) >= 1

\* C3 (as stated): no batch is exactly header + footer, and a batch without
\* any item line is the "no matches" batch.
C3_NoEmptyBatch ==
    \A x \in 1..Len(batches) :
        /\ batches[x] # base_header \o base_footer
        /\ ItemsIn(batches[x]) = <<>> =>
               \E y \in 1..Len(batches[x]) : batches[x][y].k = "no_match"

\* A group header.
IsGroupHeader(c) == c.k \in {"word_header", "source_header"}

\* The item kind of a group header's section.
ItemKindOf(c) == IF c.k = "word_header" THEN "stat_item" ELSE "new_item"

\* C4: the first item line of a group stands, in its batch, right after the
\* header of that group; and no batch ends its content with a group header
\* whose first item opens the next batch.
C4_AtomicUnit ==
    /\ \A x \in 1..Len(batches) :
          \A y \in 1..Len(batches[x]) :
              (batches[x][y].k \in {"stat_item", "new_item"}
                  /\ batches[x][y].j = 1) =>
                  /\ y > 1
                  /\ IsGroupHeader(batches[x][y - 1])
                  /\ ItemKindOf(batches[x][y - 1]) = batches[x][y].k
                  /\ batches[x][y - 1].g = batches[x][y].g
    /\ \A x \in 1..Len(batches) - 1 :
          LET c == ContentOf(batches[x])
              d == ItemsIn(batches[x + 1])
          IN  (c # <<>> /\ IsGroupHeader(c[Len(c)]) /\ d # <<>>) =>
                  ~(d[1].k = ItemKindOf(c[Len(c)]) /\ d[1].g = c[Len(c)].g
                      /\ d[1].j = 1)

\* C4 witness: a unit that did not fit was moved as a whole: a batch with
\* items is followed by one that opens a group with header and first item.
C4_Witness ==
    \E x \in 2..Len(batches) :
        /\ ItemsIn(batches[x - 1]) # <<>>
        /\ ItemsIn(batches[x]) # <<>>
        /\ ItemsIn(batches[x])[1].j = 1
        /\ ItemsIn(batches[x])[1].k \in {"stat_item", "new_item"}

\* C7: every batch begins with the fixed header and ends with the footer.
C7_HeaderAndFooter ==
    \A x \in 1..Len(batches) :
        /\ Len(batches[x]) >= Len(base_header) + Len(base_footer)
        /\ SubSeq(batches[x], 1, Len(base_header)) = base_header
        /\ SubSeq(batches[x], Len(batches[x]) - Len(base_footer) + 1,
                  Len(batches[x])) = base_footer
        /\ base_footer # <<>>

\* C7 witness: a platform with a fixed header has finished with batches from
\* a flush inside a section and from the finalization.
C7_Witness ==
    /\ pc = "done"
    /\ base_header # <<>>
    /\ Len(batches) >= 3

\* The report is empty after pre-processing and no source failed.
Degenerate ==
    /\ truncated_report_data.stats = <<>>
    /\ truncated_report_data.new_titles = <<>>
    /\ report_data.failed_ids = <<>>

\* The "no matches" batch for the mode m: header, the wording of m, footer.
NoMatchBatch(m) ==
    base_header
        \o <<[k |-> "no_match", g |-> 0, j |-> 0, t |-> 0, n |-> FixedBytes,
              f |-> CASE m = "incremental" -> "incremental"
                      [] m = "current" -> "current"
                      [] OTHER -> "other",
              src |-> FALSE, new |-> FALSE]>>
        \o base_footer

\* C8: when nothing is left after pre-processing and no id failed, no
\* splitting step runs and the result is the one "no matches" batch worded
\* for the mode, whatever the budget.
C8_NoMatchBatch ==
    (pc # "truncate" /\ Degenerate) =>
        /\ pc \in {"check", "done"}
        /\ current_batch = base_header
        /\ ~current_batch_has_content
        /\ pc = "check" => batches = <<>>
        /\ pc = "done" => batches = <<NoMatchBatch(mode)>>

\* C8 witness: the "no matches" batch of the incremental mode, over the
\* budget, for a report whose statistics were cut away.
C8_Witness ==
    /\ pc = "done"
    /\ Degenerate
    /\ report_data.stats # <<>>
    /\ mode = "incremental"
    /\ Len(batches) = 1
    /\ OverBudget(batches[1])

\* The input has no statistics and no new titles, but failed ids.
FailedOnly ==
    /\ report_data.stats = <<>>
    /\ report_data.new_titles = <<>>
    /\ report_data.failed_ids # <<>>

\* C9: with empty stats and new_titles and some failed ids, the batches hold
\* nothing but header, failed-ids section and footer, never the "no matches"
\* text, and at the end every failed id once, in input order.
C9_FailedOnly ==
    FailedOnly =>
        /\ \A x \in 1..Len(batches) :
              \A y \in 1..Len(batches[x]) :
                  batches[x][y].k \in
                      {"base_header", "failed_header", "failed_line",
                       "base_footer"}
        /\ pc = "done" =>
              /\ batches # <<>>
              /\ LET ls == SelectSeq(Flat(batches),
                                     LAMBDA c : c.k = "failed_line")
                 IN  [x \in 1..Len(ls) |-> ls[x].g] = report_data.failed_ids

\* C9 witness: two failed ids, delivered in more than one batch.
C9_Witness ==
    /\ FailedOnly
    /\ pc = "done"
    /\ Len(report_data.failed_ids) = 2
    /\ Len(batches) >= 2

\* A string of the statistics section.
IsStatsText(c) ==
    c.k \in {"stats_header", "word_header", "stat_item", "separator"}

\* C10: with show_stats_in_push false and max_total_news_in_push 0 the
\* statistics are cleared: nothing of them reaches a batch, and with no new
\* titles and no failed ids the output is the one "no matches" batch.
C10_StatsCleared ==
    (~show_stats_in_push /\ max_total_news_in_push = 0) =>
        /\ pc # "truncate" => truncated_report_data.stats = <<>>
        /\ \A x \in 1..Len(current_batch) : ~IsStatsText(current_batch[x])
        /\ \A x \in 1..Len(batches) :
              \A y \in 1..Len(batches[x]) : ~IsStatsText(batches[x][y])
        /\ (pc = "done" /\ report_data.new_titles = <<>>
               /\ report_data.failed_ids = <<>>) =>
              /\ Len(batches) = 1
              /\ \E y \in 1..Len(batches[1]) : batches[1][y].k = "no_match"
              /\ ItemsIn(batches[1]) = <<>>

\* C10 witness: a report of three statistics titles and nothing else ends as
\* the single "no matches" batch.
C10_Witness ==
    /\ ~show_stats_in_push
    /\ max_total_news_in_push = 0
    /\ Len(GroupTitles(report_data.stats)) = 3
    /\ report_data.new_titles = <<>>
    /\ report_data.failed_ids = <<>>
    /\ pc = "done"
    /\ Len(batches) = 1

\* ------------------------------------------- splitter against renderers
\* The (group, item) pairs retained by a pre-processing: those of the
\* statistics groups, then those of the source groups.
RetainedPairs(t) ==
    PairsOf(t.stats, LAMBDA g : g.word)
        \o PairsOf(t.new_titles, LAMBDA g : g.source_name)

\* C11 (as stated): with show_stats_in_push false, statistics present and
\* max_total_news_in_push > 0, the splitter retains the same (group, item)
\* sequence as render_feishu_content and render_dingtalk_content: the
\* statistics items flattened into one pseudo-group ahead of the new items,
\* then cut to the budget.
C11_SameAsRenderers ==
    (/\ ~show_stats_in_push
     /\ report_data.stats # <<>>
     /\ max_total_news_in_push > 0
     /\ pc # "truncate"
     /\ rendered = {"feishu", "dingtalk"}) =>
        /\ RetainedPairs(truncated_report_data) = RetainedPairs(feishu_truncated)
        /\ RetainedPairs(truncated_report_data)
               = RetainedPairs(dingtalk_truncated)

\* ---------------------------------------------------- groups without items
\* The text shows an item line of the group the header c names.
ShowsItemOf(text, c) ==
    \E y \in 1..Len(text) :
        text[y].k = ItemKindOf(c) /\ text[y].g = c.g

\* Every group header of the text has an item line of its group in the text.
NoBareGroup(text) ==
    \A y \in 1..Len(text) :
        IsGroupHeader(text[y]) => ShowsItemOf(text, text[y])

\* C12 (as stated): a group whose titles are empty after pre-processing is
\* dropped from the output: neither the splitter (all its batches read
\* together) nor a renderer emits the header of a group of which it shows no
\* item, for every max_total_news_in_push, 0 included.
C12_EmptyGroupsDropped ==
    /\ pc = "done" => NoBareGroup(Flat(batches))
    /\ "feishu" \in rendered => NoBareGroup(feishu_text)
    /\ "dingtalk" \in rendered => NoBareGroup(dingtalk_text)

\* C19 (as stated): in every batch each group header, re-emitted ones
\* included, is followed at once by an item line of its group, also for
\* groups whose titles list is empty when no truncation runs.
C19_HeaderHasItem ==
    \A x \in 1..Len(batches) :
        \A y \in 1..Len(batches[x]) :
            IsGroupHeader(batches[x][y]) =>
                /\ y < Len(batches[x])
                /\ batches[x][y + 1].k = ItemKindOf(batches[x][y])
                /\ batches[x][y + 1].g = batches[x][y].g

\* ------------------------------------------------------------ the budget
\* The key of the size mapping a platform reads.
SizeKeyOf(ft) ==
    IF ft \in {"dingtalk", "feishu", "ntfy"} THEN ft ELSE "default"

\* C13: an explicit max_bytes is the budget; without one the budget is the
\* entry of batch_sizes under the platform's key (dingtalk, feishu, ntfy,
\* "default" for every other platform) and, when batch_sizes has no such
\* entry, 20000 for dingtalk, 29000 for feishu, 3800 for ntfy and 4000 for
\* every other platform.
C13_DefaultBudget ==
    pc = "truncate" =>
        max_bytes =
            IF max_bytes_arg # <<>> THEN max_bytes_arg[1]
            ELSE IF SizeKeyOf(format_type) \in DOMAIN batch_sizes
            THEN batch_sizes[SizeKeyOf(format_type)]
            ELSE CASE format_type = "dingtalk" -> 20000
                   [] format_type = "feishu" -> 29000
                   [] format_type = "ntfy" -> 3800
                   [] OTHER -> 4000

\* C13 witness: bark, called without max_bytes and with a mapping that
\* overrides dingtalk only, got the default of the other platforms.
C13_Witness ==
    /\ pc = "truncate"
    /\ format_type = "bark"
    /\ max_bytes_arg = <<>>
    /\ DOMAIN batch_sizes = {"dingtalk", "bark"}
    /\ max_bytes = 4000

C16_Terminates == <>(pc = "done")

\* C16 witness: the function has returned although the budget is below
\* header + footer, every chunk having been force-placed: one batch an item.
C16_Witness ==
    /\ pc = "done"
    /\ max_bytes < Bytes(base_header) + Bytes(base_footer)
    /\ Len(ItemsIn(Flat(batches))) >= 3
    /\ Len(batches) >= Len(ItemsIn(Flat(batches)))

\* -------------------------------------------------- the message as a whole
RECURSIVE StatsGroupsText(_)
\* The statistics groups from the k-th on: header, items, separators.
StatsGroupsText(k) ==
    IF k > Len(stats) THEN <<>>
    ELSE WordWithFirstNews(format_type, k, stats[k])
         \o [x \in 1..(Len(stats[k].titles) - 1) |->
                StatsNewsLine(format_type, stats[k], x + 1)[1]]
         \o (IF k < Len(stats) THEN Separator(format_type) ELSE <<>>)
         \o StatsGroupsText(k + 1)

RECURSIVE SourceGroupsText(_)
\* The source groups from the k-th on: header, items, the closing "\n".
SourceGroupsText(k) ==
    IF k > Len(new_titles) THEN <<>>
    ELSE SourceWithFirstNews(format_type, new_titles[k])
         \o [x \in 1..(Len(new_titles[k].titles) - 1) |->
                NewNewsLine(format_type, new_titles[k], x + 1)[1]]
         \o Newline
         \o SourceGroupsText(k + 1)

\* The whole message in one piece: header, the sections in their order, the
\* failed ids, footer.
WholeMessage ==
    LET stats_text == IF stats # <<>>
                      THEN stats_header \o StatsGroupsText(1) ELSE <<>>
        new_text == IF new_titles # <<>>
                    THEN new_header \o SourceGroupsText(1) ELSE <<>>
        failed_text ==
            IF failed_ids # <<>>
            THEN failed_header
                 \o [x \in 1..Len(failed_ids) |->
                        FailedLine(format_type, failed_ids[x])[1]]
            ELSE <<>>
    IN  base_header
            \o (IF reverse_content_order THEN new_text \o stats_text
                ELSE stats_text \o new_text)
            \o failed_text \o base_footer

\* C17: when the whole message (header, section and group headers, item
\* lines, separators, footer) stays below max_bytes, the result is one batch
\* that holds every item, and no failed-ids section when failed_ids is empty.
C17_SingleBatch ==
    (pc = "done" /\ ~Degenerate /\ Bytes(WholeMessage) < max_bytes) =>
        /\ Len(batches) = 1
        /\ LinesOf(batches[1], "stat_item")
               = PairsOf(truncated_report_data.stats, LAMBDA g : g.word)
        /\ LinesOf(batches[1], "new_item")
               = PairsOf(truncated_report_data.new_titles,
                         LAMBDA g : g.source_name)
        /\ LET ls == SelectSeq(batches[1], LAMBDA c : c.k = "failed_line")
           IN  [x \in 1..Len(ls) |-> ls[x].g] = report_data.failed_ids
        /\ report_data.failed_ids = <<>> =>
               \A y \in 1..Len(batches[1]) :
                   batches[1][y].k \notin {"failed_header", "failed_line"}

\* C17 witness: a statistics group of two items behind a fixed header and
\* nothing failed, in one batch one byte below the budget.
C17_Witness ==
    /\ pc = "done"
    /\ base_header # <<>>
    /\ Len(truncated_report_data.stats) = 1
    /\ Len(truncated_report_data.stats[1].titles) = 2
    /\ report_data.failed_ids = <<>>
    /\ Len(batches) = 1
    /\ Bytes(batches[1]) = max_bytes - 1

\* ------------------------------------------- the placeholder of the renderers
\* The "no matches" placeholders of a text.
Placeholders(text) == SelectSeq(text, LAMBDA c : c.k = "no_match")

\* The wording the mode selects: one for incremental, one for current, one
\* for every other mode.
WordingOf(m) ==
    CASE m = "incremental" -> "incremental"
      [] m = "current" -> "current"
      [] OTHER -> "other"

\* The text of a renderer shows the placeholder, once and worded for the mode,
\* exactly when its pre-processing left no item in either section.
PlaceholderIffEmpty(text, truncated) ==
    /\ Placeholders(text) # <<>> <=> Retained(truncated) = 0
    /\ Len(Placeholders(text)) <= 1
    /\ \A y \in 1..Len(Placeholders(text)) :
          Placeholders(text)[y].f = WordingOf(render_mode)

\* C18 (as stated): render_feishu_content and render_dingtalk_content show
\* the "no matches" placeholder if and only if the statistics section and the
\* new-items section are both empty after pre-processing, worded by the mode
\* (incremental, current, any other).
C18_RenderNoMatch ==
    /\ "feishu" \in rendered => PlaceholderIffEmpty(feishu_text, feishu_truncated)
    /\ "dingtalk" \in rendered =>
           PlaceholderIffEmpty(dingtalk_text, dingtalk_truncated)

\* ------------------------------------------------- self-describing batches
\* The section header an item line belongs under.
SectionHeaderOf(c) ==
    CASE c.k = "stat_item" -> "stats_header"
      [] c.k = "new_item" -> "new_header"
      [] OTHER -> "failed_header"

\* The item line at place y of a text has, before it in that text, the header
\* of its section and, for a statistics or new-items line, the header of its
\* own group.
Described(text, y) ==
    /\ \E z \in 1..(y - 1) : text[z].k = SectionHeaderOf(text[y])
    /\ text[y].k \in {"stat_item", "new_item"} =>
           \E z \in 1..(y - 1) :
               /\ IsGroupHeader(text[z])
               /\ ItemKindOf(text[z]) = text[y].k
               /\ text[z].g = text[y].g

\* C20 (as stated): every batch is self-describing: each item line of a batch
\* is preceded, inside that batch, by the header of its section (statistics,
\* new-items or failed) and by the header of its own group.
C20_SelfDescribing ==
    \A x \in 1..Len(batches) :
        \A y \in 1..Len(batches[x]) :
            IsItem(batches[x][y]) => Described(batches[x], y)

\* ------------------------------------------------------- the state machine
\* A chunk is on trial in this state: the running step is one of the trial
\* appends of a section header, a group unit, an item line or a failed line.
Trying ==
    \/ pc = "stats" /\ stats # <<>>
    \/ pc = "word"
    \/ pc = "stat_item" /\ j <= Len(stats[i].titles)
    \/ pc = "new" /\ new_titles # <<>>
    \/ pc = "source"
    \/ pc = "new_item" /\ j <= Len(new_titles[i].titles)
    \/ pc = "failed" /\ failed_ids # <<>>
    \/ pc = "failed_line" /\ i <= Len(failed_ids)

\* The chunk on trial.
Candidate ==
    CASE pc = "stats" -> stats_header
      [] pc = "word" -> WordWithFirstNews(format_type, i, stats[i])
      [] pc = "stat_item" -> StatsNewsLine(format_type, stats[i], j)
      [] pc = "new" -> new_header
      [] pc = "source" -> SourceWithFirstNews(format_type, new_titles[i])
      [] pc = "new_item" -> NewNewsLine(format_type, new_titles[i], j)
      [] pc = "failed" -> failed_header
      [] pc = "failed_line" -> FailedLine(format_type, failed_ids[i])
      [] OTHER -> <<>>

\* The chunk on trial fits the current batch.
CandidateFits == Fits(current_batch \o Candidate)

\* seq ends with the strings of tail.
EndsWith(seq, tail) ==
    /\ Len(seq) >= Len(tail)
    /\ SubSeq(seq, Len(seq) - Len(tail) + 1, Len(seq)) = tail

\* The step is a flush: a chunk on trial does not fit a batch with content.
FlushStep == Trying /\ ~CandidateFits /\ current_batch_has_content

\* The step is the finalization of a batch with content.
FinalStep == pc = "finish" /\ current_batch_has_content

\* The step is the early return of a report with nothing to show.
NoMatchStep == pc = "check" /\ pc' = "done"

\* What a trial that pushes nothing does: a chunk that fits extends the
\* batch, a chunk that does not fit an empty batch is placed all the same.
QuietTrials ==
    /\ (Trying /\ CandidateFits) =>
           /\ batches' = batches
           /\ current_batch' = current_batch \o Candidate
    /\ (Trying /\ ~CandidateFits /\ ~current_batch_has_content) =>
           /\ batches' = batches
           /\ EndsWith(current_batch', Candidate)

\* C21 (as stated): a batch is pushed only when a chunk does not fit and the
\* current batch has content, or at finalization when the current batch has
\* content; a chunk that fits, or that does not fit an empty batch, pushes
\* nothing.
C21_StateMachineAsStated ==
    [][/\ batches' # batches => (FlushStep \/ FinalStep)
       /\ QuietTrials]_vars

\* C21 (amended): a batch is pushed only by a flush (a chunk does not fit and
\* the current batch has content), by the finalization of a batch with
\* content, or by the early return that pushes the "no matches" batch of a
\* report with nothing to show; a chunk that fits pushes nothing and extends
\* the batch; a chunk that does not fit a batch without content pushes nothing
\* and is placed in the current batch all the same.
C21_StateMachine ==
    [][/\ batches' # batches => (FlushStep \/ FinalStep \/ NoMatchStep)
       /\ (FlushStep \/ FinalStep \/ NoMatchStep) =>
              Len(batches') = Len(batches) + 1
       /\ QuietTrials]_vars

\* C21 witness: a run in which a section header was force-placed in the empty
\* first batch, which a later flush pushed, and the finalization pushed the
\* last batch.
C21_Witness ==
    /\ pc = "done"
    /\ Len(batches) >= 2
    /\ Bytes(batches[1]) >= max_bytes
    /\ ItemsIn(batches[1]) = <<>>
    /\ \A y \in 1..Len(batches[1]) : batches[1][y].k # "no_match"

\* ------------------------------------------------------------ trial appends
\* The step appends text to the batch being built and goes on with it (a
\* trial that fails starts the next batch instead).
ExtendsBatch ==
    /\ pc # "truncate"
    /\ ~(Trying /\ ~CandidateFits)
    /\ Len(current_batch') > Len(current_batch)
    /\ SubSeq(current_batch', 1, Len(current_batch)) = current_batch

\* C22 (as stated): every extension of the current batch is a trial append:
\* text (section header, group header, item line, separator, trailing
\* newline) is added to a batch that continues only if the batch with it,
\* plus the footer, is strictly below the budget; no text is appended to a
\* continuing batch without this test.
C22_TrialAppend == [][ExtendsBatch => Fits(current_batch')]_vars

\* ---------------------------------------------------------------- separators
\* new_header opens with the text that parts the new-items section from what
\* stands before it ("\n\n\n\n", "\n\n", "\n---\n\n", the feishu rule): the
\* separator between the two sections is the head of that string.
SectionSeparator(ft) ==
    ft \in {"wework", "bark", "telegram", "ntfy", "feishu", "dingtalk", "slack"}

\* The step handles the separator after a statistics group.
GroupSeparatorStep ==
    pc = "stat_item" /\ j > Len(stats[i].titles) /\ i < Len(stats)

\* The step handles the separator before the new-items section.
SectionSeparatorStep ==
    pc = "new" /\ new_titles # <<>> /\ SectionSeparator(format_type)

\* The step keeps its text if it fits and drops it otherwise: no batch is
\* pushed and the current batch is the same one, with or without the text.
KeptOrDropped ==
    /\ batches' = batches
    /\ \/ current_batch' = current_batch
       \/ /\ Len(current_batch') > Len(current_batch)
          /\ SubSeq(current_batch', 1, Len(current_batch)) = current_batch
          /\ Fits(current_batch')

\* C23 (as stated): the separators between groups and between the statistics
\* section and the new-items section are kept only if they fit together with
\* the footer and are dropped otherwise: handling a separator never pushes a
\* batch and never starts a new batch.
C23_SeparatorsDropped ==
    [][(GroupSeparatorStep \/ SectionSeparatorStep) => KeptOrDropped]_vars

\* ------------------------------------------------------ order of the sections
\* In a text read in order the statistics items stand before the new items
\* (after them when rev), and the failed lines after all items.
SectionsInOrder(text, rev) ==
    \A a, b \in 1..Len(text) :
        /\ (text[a].k = "stat_item" /\ text[b].k = "new_item") =>
               (IF rev THEN b < a ELSE a < b)
        /\ (text[a].k \in {"stat_item", "new_item"}
               /\ text[b].k = "failed_line") => a < b

\* C24: across the output read in order (the batches of the splitter, the
\* text of each renderer), without reverse_content_order every statistics
\* item precedes every new item, with it every new item precedes every
\* statistics item, and every failed-id line comes after all items.
C24_SectionOrder ==
    /\ SectionsInOrder(Flat(batches), reverse_content_order)
    /\ SectionsInOrder(feishu_text, reverse_content_order)
    /\ SectionsInOrder(dingtalk_text, reverse_content_order)

\* C24 witness: with reverse_content_order the splitter and both renderers
\* have given new items, statistics items and failed lines.
C24_Witness ==
    /\ reverse_content_order
    /\ pc = "done"
    /\ rendered = {"feishu", "dingtalk"}
    /\ \A text \in {Flat(batches), feishu_text, dingtalk_text} :
          \A kind \in {"stat_item", "new_item", "failed_line"} :
              \E y \in 1..Len(text) : text[y].k = kind

\* ------------------------------------- the separator of the failed section
\* The text holds the separator before the failed-sources section.
HasFailedSeparator(text) ==
    \E y \in 1..Len(text) : text[y].k = "failed_separator"

\* The content of the text is real content: a statistics or a new-items
\* section, not the placeholder.
HasRealContent(text) == Placeholders(text) = <<>>

\* C25 (as stated): in the text of a renderer with failed ids, the separator
\* stands before the failed-sources section if and only if the content before
\* it is real content and not the "no matches" placeholder, whatever the text
\* of the words and titles of the report.
C25_FailedSeparator ==
    report_data.failed_ids # <<>> =>
        /\ "feishu" \in rendered =>
               (HasFailedSeparator(feishu_text) <=> HasRealContent(feishu_text))
        /\ "dingtalk" \in rendered =>
               (HasFailedSeparator(dingtalk_text)
                   <=> HasRealContent(dingtalk_text))

\* --------------------------------------------- the flattening of statistics
\* What a renderer with truncated groups t and text `text` has made of a
\* report whose statistics are not to be shown: no statistics section; one
\* sentinel group, the first, holding the titles of all statistics groups in
\* order; the groups of new_titles after it; and, under a budget M > 0, the
\* first M titles of that whole row, the flattened ones first.
FlattenedFirst(t, text) ==
    LET flat == GroupTitles(report_data.stats)
        all == flat \o GroupTitles(report_data.new_titles)
        M == max_total_news_in_push
        kept == IF M > 0 THEN FirstN(all, M) ELSE all
        shown == LinesOf(text, "new_item")
    IN  /\ t.stats = <<>>
        /\ \A y \in 1..Len(text) :
              text[y].k \notin {"stats_header", "word_header", "stat_item"}
        /\ GroupTitles(t.new_titles) = kept
        /\ \A k \in 1..Len(t.new_titles) :
              t.new_titles[k].source_name = FlatSourceName => k = 1
        /\ flat # <<>> =>
              /\ t.new_titles # <<>>
              /\ t.new_titles[1].source_name = FlatSourceName
              /\ t.new_titles[1].titles =
                     (IF M > 0 THEN FirstN(flat, M) ELSE flat)
        /\ [x \in 1..Len(shown) |-> shown[x][3]]
               = [x \in 1..Len(kept) |-> kept[x].title]

\* C26: in render_feishu_content and render_dingtalk_content, whenever
\* show_stats_in_push is false and stats is non-empty, all statistics items
\* are flattened in order into a single sentinel source group placed before
\* the groups of new_titles, no statistics section is rendered, and the
\* flattening precedes the truncation: with M > 0 the flattened items take
\* the budget first.
C26_FlattenedFirst ==
    (~show_stats_in_push /\ report_data.stats # <<>>) =>
        /\ "feishu" \in rendered => FlattenedFirst(feishu_truncated, feishu_text)
        /\ "dingtalk" \in rendered =>
               FlattenedFirst(dingtalk_truncated, dingtalk_text)

\* C26 witness: both renderers have flattened statistics that hold more
\* titles than the budget, leaving room for one title only of the two of
\* new_titles.
C26_Witness ==
    /\ rendered = {"feishu", "dingtalk"}
    /\ ~show_stats_in_push
    /\ Len(GroupTitles(report_data.stats)) = 2
    /\ Len(GroupTitles(report_data.new_titles)) = 2
    /\ max_total_news_in_push = 3
    /\ Len(feishu_truncated.new_titles) = 2
    /\ Len(dingtalk_truncated.new_titles) = 2

\* ------------------------------------------------------ over-budget batches
\* C27: a batch of split_content_into_batches whose encoded length exceeds
\* max_bytes holds at most one item line (statistics item, new item or failed
\* id); the same of the batch being built, footer counted: a batch over the
\* budget gathers no further item.
C27_OverBudgetOneItem ==
    /\ \A x \in 1..Len(batches) :
          Bytes(batches[x]) > max_bytes => Len(ItemsIn(batches[x])) <= 1
    /\ (pc \notin {"truncate", "budget"}
           /\ Bytes(current_batch) + Bytes(base_footer) > max_bytes) =>
           Len(ItemsIn(current_batch)) <= 1

\* C27 witness: an over-budget batch with its one item was pushed and the
\* items after it went to later batches.
C27_Witness ==
    /\ pc = "done"
    /\ \E x \in 1..(Len(batches) - 1) :
          /\ Bytes(batches[x]) > max_bytes
          /\ Len(ItemsIn(batches[x])) = 1
          /\ ItemsIn(batches[x + 1]) # <<>>

\* --------------------------------------------- one formatter for new items
\* C28 (as stated): for every platform all item lines of the new-items
\* section come from the same formatter choice, the first item of a source
\* group and the items after it alike (the same platform formatter, or the
\* raw title for both).
C28_OneFormatter ==
    \A x1, x2 \in 1..Len(batches) :
        \A y1 \in 1..Len(batches[x1]), y2 \in 1..Len(batches[x2]) :
            (batches[x1][y1].k = "new_item" /\ batches[x2][y2].k = "new_item")
                => batches[x1][y1].f = batches[x2][y2].f

\* -------------------------------------------- the label of the failed section
\* C29 (as stated): for every platform the failed-ids section header is a
\* non-empty label, and every batch that holds failed-id lines shows that
\* label before them.
C29_FailedLabel ==
    /\ pc = "failed_line" => failed_header # <<>>
    /\ \A x \in 1..Len(batches) :
          \A y \in 1..Len(batches[x]) :
              batches[x][y].k = "failed_line" =>
                  \E z \in 1..(y - 1) : batches[x][z].k = "failed_header"

\* ------------------------------------------------- the list of batches grows
\* The step appends the batch being built, closed with the footer.
AppendsCurrent == batches' = Append(batches, current_batch \o base_footer)

\* The step is the early return: to the empty list it appends the "no
\* matches" batch, made of header, message and footer without the buffer.
AppendsNoMatch ==
    /\ pc = "check"
    /\ batches = <<>>
    /\ batches' = <<base_header \o NoMatch(mode') \o base_footer>>

\* C30 (as stated): the list of finished batches is append-only: every step
\* leaves it unchanged or appends exactly one batch, the current buffer plus
\* the footer; a batch once appended is never modified, removed or reordered.
C30_AppendOnlyAsStated == [][batches' = batches \/ AppendsCurrent]_vars

\* C30 (amended): every step of a split leaves the list of finished batches
\* unchanged or appends exactly one batch to it, which is the current buffer
\* plus the footer or, at the early return of a report with nothing to show,
\* the "no matches" batch; a batch once appended is never modified, removed
\* or reordered, so the list at any step is a prefix of the result.
C30_AppendOnly ==
    [][batches' = batches \/ AppendsCurrent \/ AppendsNoMatch]_vars

\* C30 witness: a split that appended three batches or more.
C30_Witness == pc = "done" /\ Len(batches) >= 3

====
